---- MODULE Spec2Model ----
(***************************************************************************)
(* Model of the scrum-discord-bot HTTP bootstrap: src/bin/http.rs (main,   *)
(* app, metrics_server, shutdown_signal), the request instrumentation      *)
(* middleware (drivers/http/middlewares/mod.rs), the metric families       *)
(* (observability/metrics.rs) and the telemetry initialisation             *)
(* (observability/trace.rs, observability/logging.rs).                      *)
(*                                                                         *)
(* Latencies are counted in milliseconds, so the bucket bound 0.005 s is   *)
(* 5 and 10.0 s is 10000.                                                  *)
(***************************************************************************)
EXTENDS Integers, Sequences, FiniteSets, TLC

VARIABLES
    otelEnable,          \* settings.otel.enable
    mainPc,              \* position of main()
    metTask,             \* the task spawned by metrics_server
    appShutdown,         \* the app listener's shutdown_signal() future has completed
    metShutdown,         \* the metrics listener's shutdown_signal() future has completed
    sigCount,            \* OS interrupt/termination signals delivered so far
    req,                 \* requests on the application listener
    scr,                 \* connections of the metrics listener: idle or scraping
    total_requests,      \* HttpMetrics.total_requests
    request_with_error,  \* HttpMetrics.request_with_error
    latency_error,       \* HttpMetrics.latency_error
    latency_success,     \* HttpMetrics.latency_success
    registered,          \* family names registered in the Registry, in order
    tracerExporter,      \* exporter of the TracerProvider built by init_trace
    loggerExporter,      \* exporter of the LoggerProvider built by init_log
    tracerShutdowns,     \* shutdowns performed on the TracerProvider of init_trace
    loggerShutdowns,     \* shutdowns performed on the LoggerProvider of init_log
    loggerShutdownResult,\* result of logger_provider.shutdown(), discarded by main
    netCalls,            \* export calls sent to settings.otel.endpoint
    tracerResource,      \* Resource of the TracerProvider built by init_trace
    loggerResource,      \* Resource of the LoggerProvider built by init_log
    lastOut              \* history: the body of the latest scrape response, how
                         \* many aggregate mutations preceded it, and whether
                         \* the scrape before it saw that same number

orchVars == <<otelEnable, mainPc, metTask, appShutdown, metShutdown, sigCount>>
famVars == <<total_requests, request_with_error, latency_error, latency_success>>
telVars == <<tracerExporter, loggerExporter, tracerShutdowns, loggerShutdowns,
             loggerShutdownResult, netCalls>>
resVars == <<tracerResource, loggerResource>>
vars == <<otelEnable, mainPc, metTask, appShutdown, metShutdown, sigCount, req, scr,
          total_requests, request_with_error, latency_error, latency_success,
          registered, tracerExporter, loggerExporter, tracerShutdowns,
          loggerShutdowns, loggerShutdownResult, netCalls, tracerResource,
          loggerResource, lastOut>>

(***************************************************************************)
(* Bounds of the model.                                                    *)
(***************************************************************************)
MaxReq == 2
MaxScrape == 1
MaxSignals == 1

ReqIds == 1..MaxReq
ScrIds == 1..MaxScrape

Methods == {"GET", "PUT"}
\* the method of the requests sent to the application listener
ServeMethods == {"GET"}
HealthzPath == "/healthz"
RawPath == "/nope"
\* statuses a routed service may answer with, around the classification edges
Statuses == {199, 200, 201, 399, 400}
\* elapsed times in ms: one equal to a bucket edge, one above the last edge
Latencies == {5, 10001}
\* elapsed time in ms of a request to the only route, which answers at once
ServeLatencies == {5}

(***************************************************************************)
(* observability/metrics.rs                                                *)
(***************************************************************************)
\* the custom_buckets of both latency families, in ms
Buckets == <<5, 10, 25, 50, 100, 250, 500, 1000, 2500, 5000, 10000>>
NumBuckets == Len(Buckets) + 1

HttpRequestLabels(method, path, status_code) ==
    [method |-> method, path |-> path, status_code |-> status_code]

NewCounter(l) == [labels |-> l, value |-> 0]
NewHistogram(l) ==
    [labels |-> l, buckets |-> [k \in 1..NumBuckets |-> 0], sum |-> 0, count |-> 0]

HasSeries(fam, l) == \E s \in fam : s.labels = l

\* the miss path of Family::get_or_create: entry(label).or_insert_with(constructor)
\* (with insert(label, constructor()) in its place a present series is replaced)
FamilyInsertOverwrite(fam, l, fresh) == {s \in fam : s.labels # l} \cup {fresh}
FamilyInsert(fam, l, fresh) == IF HasSeries(fam, l) THEN fam ELSE fam \cup {fresh}

\* Counter::inc on the series of label l
CounterInc(fam, l) ==
    {IF s.labels = l THEN [s EXCEPT !.value = @ + 1] ELSE s : s \in fam}

\* the bucket an observation falls in: the first whose upper bound is >= v,
\* else the +Inf bucket
\* (with an exclusive upper bound a value equal to an edge moves one bucket up)
BucketIndexStrict(v) ==
    IF \E k \in 1..Len(Buckets) : v < Buckets[k]
    THEN CHOOSE k \in 1..Len(Buckets) :
             v < Buckets[k] /\ \A j \in 1..(k - 1) : ~(v < Buckets[j])
    ELSE NumBuckets
BucketIndex(v) ==
    IF \E k \in 1..Len(Buckets) : v <= Buckets[k]
    THEN CHOOSE k \in 1..Len(Buckets) :
             v <= Buckets[k] /\ \A j \in 1..(k - 1) : ~(v <= Buckets[j])
    ELSE NumBuckets

\* Histogram::observe on the series of label l
\* (with the count left alone an observation shows in sum and bucket only)
HistogramObserveNoCount(fam, l, v) ==
    {IF s.labels = l
     THEN [s EXCEPT !.buckets[BucketIndex(v)] = @ + 1, !.sum = @ + v]
     ELSE s : s \in fam}
HistogramObserve(fam, l, v) ==
    {IF s.labels = l
     THEN [s EXCEPT !.buckets[BucketIndex(v)] = @ + 1, !.sum = @ + v, !.count = @ + 1]
     ELSE s : s \in fam}

RECURSIVE SumTo(_, _)
SumTo(f, k) == IF k = 0 THEN 0 ELSE f[k] + SumTo(f, k - 1)
\* the cumulative count the exposition gives for bucket k (NumBuckets is +Inf)
Cumulative(s, k) == SumTo(s.buckets, k)

\* the names HttpMetrics::register gives the four families, in order
\* (with one name typed twice two families share a name in the Registry)
FamilyNamesRepeated ==
    <<"total_request", "requests_with_error", "latency_error", "latency_error">>
FamilyNames == <<"total_request", "requests_with_error", "latency_error", "latency_success">>

(***************************************************************************)
(* observability/trace.rs, observability/logging.rs                        *)
(***************************************************************************)
\* the exporter each arm of the match on settings.otel.enable builds
\* (with the arms exchanged the disabled policy exports over the network)
TraceExporterSwapped(enable) == IF enable THEN "stdout" ELSE "otlp"
TraceExporter(enable) == IF enable THEN "otlp" ELSE "stdout"
\* (with a provider without exporter in both arms the enabled policy logs as
\* the disabled one does)
LogExporterNone(enable) == "none"
LogExporter(enable) == IF enable THEN "otlp" ELSE "none"
\* the Resource each arm gives its provider: settings.get_resource() where the
\* arm calls with_resource, else the SDK's default Resource
TraceResource(enable) == IF enable THEN "get_resource" ELSE "sdk_default"
LogResource(enable) == "get_resource"
\* a record handed to an exporter is a network call only for the OTLP exporter
ExportCalls(exporter) == IF exporter = "otlp" THEN 1 ELSE 0

(***************************************************************************)
(* drivers/http/middlewares/mod.rs                                         *)
(***************************************************************************)
\* the condition of the success branch, status_code > 200 && status_code < 400
\* (with >= 200 a status of exactly 200 is a success)
IsSuccessInclusive(status_code) == status_code >= 200 /\ status_code < 400
IsSuccess(status_code) == status_code > 200 /\ status_code < 400

IdleReq == [pc |-> "idle", method |-> "GET", path |-> HealthzPath, status |-> 0,
            latency |-> 0, via |-> "none"]
LabelOf(r) == HttpRequestLabels(r.method, r.path, r.status)

InFlight(r) == r.pc \notin {"idle", "done"}
\* no scrape has answered yet
NoOutput == [body |-> <<>>, epoch |-> -1, repeated |-> FALSE]
ProcessEnded == mainPc \in {"done", "aborted", "killed"}

TypeOK ==
    /\ otelEnable \in BOOLEAN
    /\ sigCount \in 0..MaxSignals
    /\ netCalls \in Nat
    /\ \A i \in ReqIds : req[i].method \in Methods
    /\ \A j \in ScrIds : scr[j] \in {"idle", "inflight"}
    /\ tracerShutdowns \in Nat
    /\ loggerShutdowns \in 0..1
    /\ {tracerResource, loggerResource} \subseteq {"unset", "get_resource", "sdk_default"}
    /\ lastOut.epoch \in -1..(2 * MaxReq)

Init ==
    /\ otelEnable \in BOOLEAN
    /\ mainPc = "init_trace"
    /\ metTask = "none"
    /\ appShutdown = FALSE
    /\ metShutdown = FALSE
    /\ sigCount = 0
    /\ req = [i \in ReqIds |-> IdleReq]
    /\ scr = [j \in ScrIds |-> "idle"]
    /\ total_requests = {}
    /\ request_with_error = {}
    /\ latency_error = {}
    /\ latency_success = {}
    /\ registered = <<>>
    /\ tracerExporter = "unset"
    /\ loggerExporter = "unset"
    /\ tracerShutdowns = 0
    /\ loggerShutdowns = 0
    /\ loggerShutdownResult = "none"
    /\ netCalls = 0
    /\ tracerResource = "unset"
    /\ loggerResource = "unset"
    /\ lastOut = NoOutput
(***************************************************************************)
(* bin/http.rs: main                                                       *)
(***************************************************************************)
\* the provider opentelemetry::global holds: no line of the program calls
\* global::set_tracer_provider, so it is never the provider of init_trace
GlobalTracerProvider == "noop"

\* init_trace(&settings).expect(..): only the OTLP pipeline can fail
InitTrace ==
    /\ mainPc = "init_trace"
    /\ \/ /\ tracerExporter' = TraceExporter(otelEnable)
          /\ tracerResource' = TraceResource(otelEnable)
          /\ mainPc' = "init_log"
       \/ /\ otelEnable
          /\ mainPc' = "aborted"
          /\ UNCHANGED <<tracerExporter, tracerResource>>
    /\ UNCHANGED <<lastOut, loggerResource, otelEnable, metTask, appShutdown,
                   metShutdown, sigCount, req, scr, famVars, registered,
                   loggerExporter, tracerShutdowns, loggerShutdowns,
                   loggerShutdownResult, netCalls>>

\* init_log(&settings).expect(..), then get_subscriber / init_subscriber
InitLog ==
    /\ mainPc = "init_log"
    /\ \/ /\ loggerExporter' = LogExporter(otelEnable)
          /\ loggerResource' = LogResource(otelEnable)
          /\ mainPc' = "init_metrics"
       \/ /\ otelEnable
          /\ mainPc' = "aborted"
          /\ UNCHANGED <<loggerExporter, loggerResource>>
    /\ UNCHANGED <<lastOut, tracerResource, otelEnable, metTask, appShutdown,
                   metShutdown, sigCount, req, scr, famVars, registered,
                   tracerExporter, tracerShutdowns, loggerShutdowns,
                   loggerShutdownResult, netCalls>>

\* init_metrics: HttpMetrics::default() and HttpMetrics::register
InitMetrics ==
    /\ mainPc = "init_metrics"
    /\ registered' = registered \o FamilyNames
    /\ total_requests' = {}
    /\ request_with_error' = {}
    /\ latency_error' = {}
    /\ latency_success' = {}
    /\ mainPc' = "metrics_server"
    /\ UNCHANGED <<lastOut, resVars, otelEnable, metTask, appShutdown,
                   metShutdown, sigCount, req, scr, telVars>>

\* metrics_server(&settings, registry).await?: bind, then tokio::spawn of the
\* serving task, whose JoinHandle is dropped; then tracing::info!
MetricsServer ==
    /\ mainPc = "metrics_server"
    /\ \/ /\ metTask' = "spawned"
          /\ mainPc' = "parse_addr"
          /\ netCalls' = netCalls + ExportCalls(loggerExporter)
       \/ /\ mainPc' = "aborted"
          /\ UNCHANGED <<metTask, netCalls>>
    /\ UNCHANGED <<lastOut, resVars, otelEnable, appShutdown, metShutdown,
                   sigCount, req, scr, famVars, registered, tracerExporter,
                   loggerExporter, tracerShutdowns, loggerShutdowns,
                   loggerShutdownResult>>

\* format!("{}:{}", host, port).parse::<SocketAddr>().context(..)?
ParseAddress ==
    /\ mainPc = "parse_addr"
    /\ mainPc' \in {"app_bind", "aborted"}
    /\ UNCHANGED <<lastOut, resVars, otelEnable, metTask, appShutdown,
                   metShutdown, sigCount, req, scr, famVars, registered,
                   telVars>>

\* TcpListener::bind(address).await.context(..)?, then tracing::info!
AppBind ==
    /\ mainPc = "app_bind"
    /\ \/ /\ mainPc' = "serve"
          /\ netCalls' = netCalls + ExportCalls(loggerExporter)
       \/ /\ mainPc' = "aborted"
          /\ UNCHANGED netCalls
    /\ UNCHANGED <<lastOut, resVars, otelEnable, metTask, appShutdown,
                   metShutdown, sigCount, req, scr, famVars, registered,
                   tracerExporter, loggerExporter, tracerShutdowns,
                   loggerShutdowns, loggerShutdownResult>>

\* axum::serve(listener, app).with_graceful_shutdown(shutdown_signal()) is
\* polled: the listener accepts and its shutdown_signal() future registers
AppServe ==
    /\ mainPc = "serve"
    /\ mainPc' = "serving"
    /\ UNCHANGED <<lastOut, resVars, otelEnable, metTask, appShutdown,
                   metShutdown, sigCount, req, scr, famVars, registered,
                   telVars>>

\* the serve future of the application listener completes: signalled and drained
AppDrained ==
    /\ mainPc = "serving"
    /\ appShutdown
    /\ \A i \in ReqIds : ~InFlight(req[i])
    /\ mainPc' = "shutdown_tracer"
    /\ UNCHANGED <<lastOut, resVars, otelEnable, metTask, appShutdown,
                   metShutdown, sigCount, req, scr, famVars, registered,
                   telVars>>

\* opentelemetry::global::shutdown_tracer_provider()
ShutdownTracer ==
    /\ mainPc = "shutdown_tracer"
    /\ tracerShutdowns' =
           tracerShutdowns + (IF GlobalTracerProvider = "init_trace" THEN 1 ELSE 0)
    /\ mainPc' = "shutdown_logger"
    /\ UNCHANGED <<lastOut, resVars, otelEnable, metTask, appShutdown,
                   metShutdown, sigCount, req, scr, famVars, registered,
                   tracerExporter, loggerExporter, loggerShutdowns,
                   loggerShutdownResult, netCalls>>

\* let _ = logger_provider.shutdown(); Ok(())
ShutdownLogger ==
    /\ mainPc = "shutdown_logger"
    /\ loggerShutdowns' = loggerShutdowns + 1
    /\ loggerShutdownResult' \in {"ok", "err"}
    /\ netCalls' = netCalls + ExportCalls(loggerExporter)
    /\ mainPc' = "done"
    /\ UNCHANGED <<lastOut, resVars, otelEnable, metTask, appShutdown,
                   metShutdown, sigCount, req, scr, famVars, registered,
                   tracerExporter, loggerExporter, tracerShutdowns>>

(***************************************************************************)
(* bin/http.rs: metrics_server's spawned task, metrics_handler             *)
(***************************************************************************)
\* the spawned task is polled: axum::serve(listener, router) accepts and its
\* own shutdown_signal() future registers
MetricsTaskServe ==
    /\ ~ProcessEnded
    /\ metTask = "spawned"
    /\ metTask' = "serving"
    /\ UNCHANGED <<lastOut, resVars, otelEnable, mainPc, appShutdown,
                   metShutdown, sigCount, req, scr, famVars, registered,
                   telVars>>

MetricsTaskDrained ==
    /\ ~ProcessEnded
    /\ metTask = "serving"
    /\ metShutdown
    /\ \A j \in ScrIds : scr[j] # "inflight"
    /\ metTask' = "stopped"
    /\ UNCHANGED <<lastOut, resVars, otelEnable, mainPc, appShutdown,
                   metShutdown, sigCount, req, scr, famVars, registered,
                   telVars>>

ScrapeAccept(j) ==
    /\ ~ProcessEnded
    /\ metTask = "serving"
    /\ ~metShutdown
    /\ scr[j] = "idle"
    /\ j > 1 => scr[j - 1] # "idle"
    /\ scr' = [scr EXCEPT ![j] = "inflight"]
    /\ UNCHANGED <<lastOut, resVars, orchVars, req, famVars, registered,
                   telVars>>

\* the family a registered name stands for: register hands the Registry a
\* clone of each family, which shares the family's map
FamilyOf(name) ==
    CASE name = "total_request" -> total_requests
      [] name = "requests_with_error" -> request_with_error
      [] name = "latency_error" -> latency_error
      [] name = "latency_success" -> latency_success

\* encode(&mut buffer, &registry): the families in registration order, each
\* with the series its map holds
Encode == [k \in 1..Len(registered) |->
              [name |-> registered[k], series |-> FamilyOf(registered[k])]]

\* let mut buffer = String::new(): every call encodes into an empty buffer
\* (with a buffer kept across calls the earlier output stays in front)
NewBufferKept == lastOut.body
NewBuffer == <<>>

\* what the metrics router does to total_requests when it serves a request:
\* Router::new().route(path, get(metrics_handler)) has no metrics_middleware
\* (with the route_layer of the application router the scrape is counted)
ScrapeLabel == HttpRequestLabels("GET", "/metrics", 200)
MetricsRouterInstrumented(fam) ==
    CounterInc(FamilyInsert(fam, ScrapeLabel, NewCounter(ScrapeLabel)), ScrapeLabel)
MetricsRouter(fam) == fam

\* aggregate mutations a request has made: the inc, then the observe
MutationsOf(r) ==
    IF r.via # "handler" THEN 0
    ELSE IF r.pc \in {"counted", "latency_miss"} THEN 1
    ELSE IF r.pc \in {"respond", "done"} THEN 2
    ELSE 0
Mutations == SumTo([i \in ReqIds |-> MutationsOf(req[i])], MaxReq)

\* metrics_handler: lock the registry, encode, answer 200; the connection
\* is then free for the next scrape
ScrapeRespond(j) ==
    /\ ~ProcessEnded
    /\ scr[j] = "inflight"
    /\ scr' = [scr EXCEPT ![j] = "idle"]
    /\ total_requests' = MetricsRouter(total_requests)
    /\ lastOut' = [body |-> NewBuffer \o Encode, epoch |-> Mutations,
                   repeated |-> (lastOut.epoch = Mutations)]
    /\ UNCHANGED <<resVars, orchVars, req, request_with_error, latency_error,
                   latency_success, registered, telVars>>

(***************************************************************************)
(* bin/http.rs: shutdown_signal                                            *)
(***************************************************************************)
\* a shutdown_signal() future has been polled at least once, which installs the
\* process-wide handlers for the interrupt and the termination signal
HandlerInstalled ==
    \/ metTask \in {"serving", "stopped"}
    \/ mainPc \in {"serving", "shutdown_tracer", "shutdown_logger"}

\* the OS delivers an interrupt or termination signal: with no handler installed
\* the default disposition ends the process; otherwise every shutdown_signal()
\* future registered at that moment completes
SignalFire ==
    /\ ~ProcessEnded
    /\ sigCount < MaxSignals
    /\ sigCount' = sigCount + 1
    /\ IF HandlerInstalled
       THEN /\ metShutdown' = (metShutdown \/ metTask = "serving")
            /\ appShutdown' = (appShutdown \/ mainPc = "serving")
            /\ UNCHANGED mainPc
       ELSE /\ mainPc' = "killed"
            /\ UNCHANGED <<metShutdown, appShutdown>>
    /\ UNCHANGED <<lastOut, resVars, otelEnable, metTask, req, scr, famVars,
                   registered, telVars>>
(***************************************************************************)
(* bin/http.rs: app, the middleware stack around the router                *)
(***************************************************************************)
\* what the only route answers: get(health_handler) gives 200 to GET, and the
\* method router gives 405 to any other method
RouteStatus(method) == IF method = "GET" THEN 200 ELSE 405

\* The application listener accepts a request, which runs down the stack of
\* default_middleware to the router.  ValidateRequestHeaderLayer answers 406
\* before the router is reached; a path with no route gets the router's 404
\* fallback, which route_layer does not wrap; a matched route enters
\* metrics_middleware, which reads path and method and awaits next.run(req).
AppAccept(i, method, acceptable, matched) ==
    /\ mainPc = "serving"
    /\ ~appShutdown
    /\ req[i].pc = "idle"
    /\ i > 1 => req[i - 1].pc # "idle"
    /\ req' = [req EXCEPT ![i] =
          IF ~acceptable
          THEN [pc |-> "respond", method |-> method, path |-> HealthzPath,
                status |-> 406, latency |-> 0, via |-> "reject"]
          ELSE IF ~matched
          THEN [pc |-> "respond", method |-> method, path |-> RawPath,
                status |-> 404, latency |-> 0, via |-> "fallback"]
          ELSE [pc |-> "in_next", method |-> method, path |-> HealthzPath,
                status |-> 0, latency |-> 0, via |-> "handler"]]
    /\ UNCHANGED <<lastOut, resVars, orchVars, scr, famVars, registered,
                   telVars>>

\* next.run(req).await returns the route's response
HandlerReturns(i) ==
    /\ ~ProcessEnded
    /\ req[i].pc = "in_next"
    /\ req' = [req EXCEPT ![i].pc = "resp",
                          ![i].status = RouteStatus(req[i].method)]
    /\ UNCHANGED <<lastOut, resVars, orchVars, scr, famVars, registered,
                   telVars>>

\* the handler panics: the panic unwinds through metrics_middleware, whose
\* remaining statements never run, up to CatchPanicLayer, which answers 500
HandlerPanics(i) ==
    /\ ~ProcessEnded
    /\ req[i].pc = "in_next"
    /\ req' = [req EXCEPT ![i].pc = "respond", ![i].status = 500, ![i].via = "panic"]
    /\ UNCHANGED <<lastOut, resVars, orchVars, scr, famVars, registered,
                   telVars>>

\* TimeoutLayer's deadline (settings.http.timeout) passes while the request is
\* suspended in next.run: the inner future is dropped and 408 is answered
RequestTimeout(i) ==
    /\ ~ProcessEnded
    /\ req[i].pc = "in_next"
    /\ req' = [req EXCEPT ![i].pc = "respond", ![i].status = 408, ![i].via = "timeout"]
    /\ UNCHANGED <<lastOut, resVars, orchVars, scr, famVars, registered,
                   telVars>>

\* the response is written; TraceLayer's on_response event goes to the logger
\* pipeline, and the span of an instrumented request to the tracer pipeline
Respond(i) ==
    /\ ~ProcessEnded
    /\ req[i].pc = "respond"
    /\ req' = [req EXCEPT ![i].pc = "done"]
    /\ netCalls' = netCalls + ExportCalls(loggerExporter)
                     + (IF req[i].via \in {"handler", "panic", "timeout"}
                        THEN ExportCalls(tracerExporter) ELSE 0)
    /\ UNCHANGED <<lastOut, resVars, orchVars, scr, famVars, registered,
                   tracerExporter, loggerExporter, tracerShutdowns,
                   loggerShutdowns, loggerShutdownResult>>

(***************************************************************************)
(* drivers/http/middlewares/mod.rs: metrics_middleware after next.run      *)
(***************************************************************************)
\* what metrics_middleware does to request_with_error for a response of label
\* l: no statement of it names the family
\* (with an inc for an error status the family would follow the error rate)
RequestWithErrorCounted(fam, l) ==
    IF l.status_code >= 400
    THEN CounterInc(FamilyInsert(fam, l, NewCounter(l)), l)
    ELSE fam
RequestWithError(fam, l) == fam

\* latency = start.elapsed(), the labels are built, then
\* state.total_requests.get_or_create(&labels).inc(), the label present: the
\* counter is incremented under the read guard; absent: the write path follows
MwLookupTotal(i, latency) ==
    /\ ~ProcessEnded
    /\ req[i].pc = "resp"
    /\ LET l == LabelOf(req[i]) IN
       IF HasSeries(total_requests, l)
       THEN /\ total_requests' = CounterInc(total_requests, l)
            /\ req' = [req EXCEPT ![i].pc = "counted", ![i].latency = latency]
       ELSE /\ req' = [req EXCEPT ![i].pc = "total_miss", ![i].latency = latency]
            /\ UNCHANGED total_requests
    /\ request_with_error' = RequestWithError(request_with_error, LabelOf(req[i]))
    /\ UNCHANGED <<lastOut, resVars, orchVars, scr, latency_error,
                   latency_success, registered, telVars>>

\* get_or_create's write path, then inc()
MwInsertTotal(i) ==
    /\ ~ProcessEnded
    /\ req[i].pc = "total_miss"
    /\ LET l == LabelOf(req[i]) IN
       total_requests' = CounterInc(FamilyInsert(total_requests, l, NewCounter(l)), l)
    /\ req' = [req EXCEPT ![i].pc = "counted"]
    /\ UNCHANGED <<lastOut, resVars, orchVars, scr, request_with_error,
                   latency_error, latency_success, registered, telVars>>

\* if status_code > 200 && status_code < 400 { latency_success } else
\* { latency_error }, .get_or_create(&labels).observe(latency), label present
MwLookupLatency(i) ==
    /\ ~ProcessEnded
    /\ req[i].pc = "counted"
    /\ LET l == LabelOf(req[i])
           t == req[i].latency
       IN IF IsSuccess(req[i].status)
          THEN /\ IF HasSeries(latency_success, l)
                  THEN /\ latency_success' = HistogramObserve(latency_success, l, t)
                       /\ req' = [req EXCEPT ![i].pc = "respond", ![i].latency = 0]
                  ELSE /\ req' = [req EXCEPT ![i].pc = "latency_miss"]
                       /\ UNCHANGED latency_success
               /\ UNCHANGED latency_error
          ELSE /\ IF HasSeries(latency_error, l)
                  THEN /\ latency_error' = HistogramObserve(latency_error, l, t)
                       /\ req' = [req EXCEPT ![i].pc = "respond", ![i].latency = 0]
                  ELSE /\ req' = [req EXCEPT ![i].pc = "latency_miss"]
                       /\ UNCHANGED latency_error
               /\ UNCHANGED latency_success
    /\ UNCHANGED <<lastOut, resVars, orchVars, scr, total_requests,
                   request_with_error, registered, telVars>>

\* get_or_create's write path on the chosen latency family, then observe(latency)
MwInsertLatency(i) ==
    /\ ~ProcessEnded
    /\ req[i].pc = "latency_miss"
    /\ LET l == LabelOf(req[i])
           t == req[i].latency
       IN IF IsSuccess(req[i].status)
          THEN /\ latency_success' =
                     HistogramObserve(FamilyInsert(latency_success, l, NewHistogram(l)), l, t)
               /\ UNCHANGED latency_error
          ELSE /\ latency_error' =
                     HistogramObserve(FamilyInsert(latency_error, l, NewHistogram(l)), l, t)
               /\ UNCHANGED latency_success
    /\ req' = [req EXCEPT ![i].pc = "respond", ![i].latency = 0]
    /\ UNCHANGED <<lastOut, resVars, orchVars, scr, total_requests,
                   request_with_error, registered, telVars>>

(***************************************************************************)
(* The program: startup, two listeners, signals, requests.                 *)
(***************************************************************************)
Next ==
    \/ InitTrace
    \/ InitLog
    \/ InitMetrics
    \/ MetricsServer
    \/ ParseAddress
    \/ AppBind
    \/ AppServe
    \/ AppDrained
    \/ ShutdownTracer
    \/ ShutdownLogger
    \/ MetricsTaskServe
    \/ MetricsTaskDrained
    \/ SignalFire
    \/ \E j \in ScrIds : ScrapeAccept(j)
    \/ \E j \in ScrIds : ScrapeRespond(j)
    \/ \E i \in ReqIds, m \in ServeMethods, a \in BOOLEAN, r \in BOOLEAN :
          AppAccept(i, m, a, r)
    \/ \E i \in ReqIds : HandlerReturns(i)
    \/ \E i \in ReqIds : HandlerPanics(i)
    \/ \E i \in ReqIds : RequestTimeout(i)
    \/ \E i \in ReqIds, t \in ServeLatencies : MwLookupTotal(i, t)
    \/ \E i \in ReqIds : MwInsertTotal(i)
    \/ \E i \in ReqIds : MwLookupLatency(i)
    \/ \E i \in ReqIds : MwInsertLatency(i)
    \/ \E i \in ReqIds : Respond(i)

Spec == Init /\ [][Next]_vars

\* the steps the runtime takes by itself: main runs on, a ready task is polled,
\* a handler returns or the TimeoutLayer's timer fires; signals and incoming
\* connections are the environment's
MainProgress ==
    \/ InitTrace \/ InitLog \/ InitMetrics \/ MetricsServer \/ ParseAddress
    \/ AppBind \/ AppServe \/ AppDrained \/ ShutdownTracer \/ ShutdownLogger
RequestProgress ==
    \E i \in ReqIds :
        \/ HandlerReturns(i) \/ HandlerPanics(i) \/ RequestTimeout(i)
        \/ \E t \in ServeLatencies : MwLookupTotal(i, t)
        \/ MwInsertTotal(i) \/ MwLookupLatency(i) \/ MwInsertLatency(i)
        \/ Respond(i)
MetricsProgress ==
    \/ MetricsTaskServe \/ MetricsTaskDrained
    \/ \E j \in ScrIds : ScrapeRespond(j)

SpecLive ==
    /\ Init /\ [][Next]_vars
    /\ WF_vars(MainProgress) /\ WF_vars(RequestProgress) /\ WF_vars(MetricsProgress)

(***************************************************************************)
(* metrics_middleware as a function of what next.run returns: both         *)
(* listeners serve, and the wrapped service may answer any status.         *)
(***************************************************************************)
InitMw ==
    /\ otelEnable = FALSE
    /\ mainPc = "serving"
    /\ metTask = "serving"
    /\ appShutdown = FALSE
    /\ metShutdown = FALSE
    /\ sigCount = 0
    /\ req = [i \in ReqIds |-> IdleReq]
    /\ scr = [j \in ScrIds |-> "idle"]
    /\ total_requests = {}
    /\ request_with_error = {}
    /\ latency_error = {}
    /\ latency_success = {}
    /\ registered = FamilyNames
    /\ tracerExporter = TraceExporter(FALSE)
    /\ loggerExporter = LogExporter(FALSE)
    /\ tracerShutdowns = 0
    /\ loggerShutdowns = 0
    /\ loggerShutdownResult = "none"
    /\ netCalls = 0
    /\ tracerResource = TraceResource(FALSE)
    /\ loggerResource = LogResource(FALSE)
    /\ lastOut = NoOutput

\* the labels the calls are made with: every status with one method and path,
\* and labels that differ from one of those in the method only, in the path only
CallLabels ==
    {HttpRequestLabels("GET", HealthzPath, st) : st \in Statuses}
        \cup {HttpRequestLabels("PUT", HealthzPath, 200),
              HttpRequestLabels("GET", RawPath, 200)}

\* metrics_middleware runs around a service whose response has this status
MwCall(i, l) ==
    /\ req[i].pc = "idle"
    /\ i > 1 => req[i - 1].pc # "idle"
    /\ req' = [req EXCEPT ![i] =
          [pc |-> "resp", method |-> l.method, path |-> l.path,
           status |-> l.status_code, latency |-> 0, via |-> "handler"]]
    /\ UNCHANGED <<lastOut, resVars, orchVars, scr, famVars, registered,
                   telVars>>

NextMw ==
    \/ \E i \in ReqIds, l \in CallLabels : MwCall(i, l)
    \/ \E i \in ReqIds, t \in Latencies : MwLookupTotal(i, t)
    \/ \E i \in ReqIds : MwInsertTotal(i)
    \/ \E i \in ReqIds : MwLookupLatency(i)
    \/ \E i \in ReqIds : MwInsertLatency(i)
    \/ \E i \in ReqIds : Respond(i)

SpecMw == InitMw /\ [][NextMw]_vars
(***************************************************************************)
(* Properties.                                                             *)
(***************************************************************************)
RECURSIVE SumValues(_)
SumValues(S) ==
    IF S = {} THEN 0
    ELSE LET s == CHOOSE x \in S : TRUE IN s.value + SumValues(S \ {s})
RECURSIVE SumCounts(_)
SumCounts(S) ==
    IF S = {} THEN 0
    ELSE LET s == CHOOSE x \in S : TRUE IN s.count + SumCounts(S \ {s})

\* what the exposition shows for label l
CounterValue(fam, l) == SumValues({s \in fam : s.labels = l})
HistCount(fam, l) == SumCounts({s \in fam : s.labels = l})

Families == {total_requests, request_with_error, latency_error, latency_success}
SeenLabels ==
    {LabelOf(req[i]) : i \in {k \in ReqIds : req[k].pc # "idle"}}
        \cup UNION {{s.labels : s \in fam} : fam \in Families}

\* the request has a response whose label is LabelOf
Responded(r) == r.pc = "done"
\* the request is past line 36 / past lines 38-45 of metrics_middleware
Counted(r) == r.via = "handler" /\ r.pc \in {"counted", "latency_miss", "respond", "done"}
Observed(r) == r.via = "handler" /\ r.pc \in {"respond", "done"}
NumReq(P(_), l) == Cardinality({i \in ReqIds : P(req[i]) /\ LabelOf(req[i]) = l})
Quiescent == \A i \in ReqIds : ~InFlight(req[i])

\* C1: once every accepted request has its response, total_requests of each
\* label equals the number of responses sent with that label.
C1_ExactlyOnceCounting ==
    Quiescent =>
        \A l \in SeenLabels : CounterValue(total_requests, l) = NumReq(Responded, l)

\* C2 as stated: 201..399 is observed in latency_success only, >= 400 or < 200
\* in latency_error only, and 200 in neither family.
C2_Status200InNeither ==
    \A l \in SeenLabels :
        LET st == l.status_code IN
        /\ (st > 200 /\ st < 400) =>
               /\ HistCount(latency_success, l) = NumReq(Observed, l)
               /\ HistCount(latency_error, l) = 0
        /\ (st >= 400 \/ st < 200) =>
               /\ HistCount(latency_error, l) = NumReq(Observed, l)
               /\ HistCount(latency_success, l) = 0
        /\ st = 200 =>
               /\ HistCount(latency_success, l) = 0
               /\ HistCount(latency_error, l) = 0

\* C2 amended: 201..399 is observed in latency_success only; every other
\* status, exactly 200 included, is observed in latency_error only.
C2_Classification ==
    \A l \in SeenLabels :
        LET st == l.status_code IN
        /\ (st > 200 /\ st < 400) =>
               /\ HistCount(latency_success, l) = NumReq(Observed, l)
               /\ HistCount(latency_error, l) = 0
        /\ (st >= 400 \/ st <= 200) =>
               /\ HistCount(latency_error, l) = NumReq(Observed, l)
               /\ HistCount(latency_success, l) = 0

\* a response with status exactly 200 has been observed, in latency_error
C2_Witness ==
    \E i \in ReqIds :
        /\ req[i].pc = "done"
        /\ req[i].status = 200
        /\ HistCount(latency_error, LabelOf(req[i])) >= 1
        /\ \E k \in ReqIds :
              /\ req[k].pc = "done"
              /\ req[k].status = 201
              /\ HistCount(latency_success, LabelOf(req[k])) >= 1

\* C3: once a signal has been delivered to the running process, no listener
\* accepts a connection any more.
C3_NoAcceptAfterSignal ==
    [][sigCount >= 1 =>
          /\ \A i \in ReqIds : req[i].pc = "idle" => req'[i].pc = "idle"
          /\ \A j \in ScrIds : scr[j] = "idle" => scr'[j] = "idle"]_vars

\* C4: telemetry is shut down and main returns only when no request accepted
\* by either listener is in flight.
C4_DrainBeforeStop ==
    mainPc \in {"shutdown_logger", "done"} =>
        /\ \A i \in ReqIds : ~InFlight(req[i])
        /\ \A j \in ScrIds : scr[j] # "inflight"

\* C5: a request whose handler panicked and was answered 500 is counted in
\* total_requests under status 500 and observed in latency_error.
C5_PanicCounted ==
    \A i \in ReqIds :
        (req[i].pc = "done" /\ req[i].via = "panic") =>
            /\ req[i].status = 500
            /\ CounterValue(total_requests, LabelOf(req[i])) >= 1
            /\ HistCount(latency_error, LabelOf(req[i])) >= 1

\* C6: when startup aborts, no connection has been accepted on either listener.
C6_AbortBeforeAccept ==
    mainPc = "aborted" =>
        /\ \A i \in ReqIds : req[i].pc = "idle"
        /\ \A j \in ScrIds : scr[j] = "idle"

\* C7: each family holds one aggregate per label, created by the requests that
\* reached it, and the aggregate holds the contribution of every such request,
\* however the requests interleave.
C7_GetOrCreateSafe ==
    /\ \A fam \in Families : \A s, t \in fam : s.labels = t.labels => s = t
    /\ \A l \in SeenLabels :
          /\ CounterValue(total_requests, l) = NumReq(Counted, l)
          /\ HistCount(latency_success, l) + HistCount(latency_error, l)
                = NumReq(Observed, l)
          /\ HasSeries(total_requests, l) => NumReq(Counted, l) >= 1
    /\ \A i, k \in ReqIds :
          (Counted(req[i]) /\ Counted(req[k]) /\ LabelOf(req[i]) # LabelOf(req[k])) =>
              \E s, t \in total_requests :
                  s # t /\ s.labels = LabelOf(req[i]) /\ t.labels = LabelOf(req[k])

\* two requests with one label, unseen before, are both past the counter and
\* both on the write path of the latency family at once
C7_Witness ==
    \E i, k \in ReqIds :
        /\ i # k
        /\ req[i].pc = "latency_miss"
        /\ req[k].pc = "latency_miss"
        /\ LabelOf(req[i]) = LabelOf(req[k])
        /\ CounterValue(total_requests, LabelOf(req[i])) = 2

\* C8: on orderly shutdown the tracer provider and the logger provider of
\* init are each shut down exactly once.
C8_ShutdownOnce ==
    mainPc = "done" => (tracerShutdowns = 1 /\ loggerShutdowns = 1)

\* C9: with telemetry disabled no exporter is the OTLP exporter and no export
\* call reaches the endpoint.
C9_DisabledNoNetwork ==
    ~otelEnable =>
        /\ netCalls = 0
        /\ tracerExporter # "otlp"
        /\ loggerExporter # "otlp"

\* telemetry disabled, an instrumented request served, the process shut down
C9_Witness ==
    /\ ~otelEnable
    /\ mainPc = "done"
    /\ \E i \in ReqIds : req[i].pc = "done" /\ req[i].via = "handler"
    /\ netCalls = 0

\* the series of label l in fam, or a fresh one when the label is unseen
SeriesOf(fam, l) ==
    IF HasSeries(fam, l) THEN CHOOSE s \in fam : s.labels = l ELSE NewHistogram(l)

HistogramLaw(old, new, t) ==
    /\ \A k \in 1..Len(Buckets) :
          Cumulative(new, k) = Cumulative(old, k) + (IF Buckets[k] >= t THEN 1 ELSE 0)
    /\ Cumulative(new, NumBuckets) = Cumulative(old, NumBuckets) + 1
    /\ new.count = old.count + 1
    /\ new.sum = old.sum + t

\* C10: the step of a request that observes its latency t raises the
\* cumulative count of every bucket with bound >= t and of +Inf by one, the
\* count by one and the sum by t, and leaves the buckets with bound < t alone.
C10_CumulativeHistogram ==
    [][\A i \in ReqIds :
          (req[i].pc \in {"counted", "latency_miss"} /\ req'[i].pc = "respond") =>
              LET l == LabelOf(req[i])
                  t == req[i].latency
              IN IF IsSuccess(req[i].status)
                 THEN HistogramLaw(SeriesOf(latency_success, l),
                                   SeriesOf(latency_success', l), t)
                 ELSE HistogramLaw(SeriesOf(latency_error, l),
                                   SeriesOf(latency_error', l), t)]_vars

\* one series holds an observation equal to the first bucket edge, in that
\* bucket, and one above the last edge, in +Inf only
C10_Witness ==
    \E s \in latency_error \cup latency_success :
        /\ s.count = 2
        /\ s.buckets[1] = 1
        /\ s.buckets[NumBuckets] = 1
        /\ s.sum = Buckets[1] + Buckets[Len(Buckets)] + 1

(***************************************************************************)
(* Scrapes and registration                                                *)
(***************************************************************************)
ScrapeAnswers == \E j \in ScrIds : scr[j] = "inflight" /\ scr'[j] = "idle"

\* C11: a scrape answered when no aggregate has been mutated since the scrape
\* before it returns the same body as that scrape.
C11_IdempotentEncode ==
    [][(ScrapeAnswers /\ lastOut.epoch = Mutations)
           => lastOut'.body = lastOut.body]_vars

\* two scrapes in a row with no mutation between, of a registry with a series
C11_Witness ==
    /\ lastOut.repeated
    /\ \E k \in 1..Len(lastOut.body) : lastOut.body[k].series # {}

\* a listener accepts connections, or has accepted one
Accepting ==
    \/ metTask \in {"serving", "stopped"}
    \/ mainPc \in {"serving", "shutdown_tracer", "shutdown_logger", "done"}
    \/ \E i \in ReqIds : req[i].pc # "idle"
    \/ \E j \in ScrIds : scr[j] # "idle"
    \/ lastOut # NoOutput

C13_DrainTerminates ==
    (mainPc = "serving" /\ appShutdown /\ metShutdown)
        ~> (/\ mainPc = "done"
            /\ \A i \in ReqIds : ~InFlight(req[i])
            /\ \A j \in ScrIds : scr[j] # "inflight")

\* main by itself does reach its end after the signal, whatever the metrics
\* listener is doing
MainStopsAfterSignal == (mainPc = "serving" /\ appShutdown) ~> (mainPc = "done")

(***************************************************************************)
(* Telemetry initialisation                                                *)
(***************************************************************************)
\* C14: whichever the policy, the tracer provider and the logger provider,
\* once built, carry the Resource of settings.get_resource().
C14_SharedResource ==
    /\ tracerResource # "unset" => tracerResource = "get_resource"
    /\ loggerResource # "unset" => loggerResource = "get_resource"

\* C15: startup stops on a missing provider only with telemetry enabled, and
\* then before any listener exists; past the initialisation both providers
\* are built, and with telemetry enabled a built provider exports over OTLP.
C15_InitFailsOnlyWhenEnabled ==
    /\ (mainPc = "aborted" /\ (tracerExporter = "unset" \/ loggerExporter = "unset"))
           => /\ otelEnable
              /\ metTask = "none"
              /\ ~Accepting
    /\ mainPc \notin {"init_trace", "init_log", "aborted", "killed"}
           => (tracerExporter # "unset" /\ loggerExporter # "unset")
    /\ otelEnable => /\ tracerExporter \in {"unset", "otlp"}
                     /\ loggerExporter \in {"unset", "otlp"}

\* telemetry enabled, the tracer pipeline built, the logger pipeline failed
C15_Witness ==
    /\ otelEnable
    /\ mainPc = "aborted"
    /\ tracerExporter = "otlp"
    /\ loggerExporter = "unset"

(***************************************************************************)
(* The families over time                                                  *)
(***************************************************************************)
CounterGrows(old, new) ==
    /\ \A s \in old : \E t \in new : t.labels = s.labels /\ t.value >= s.value
    /\ \A t, u \in new : t.labels = u.labels => t = u

HistogramGrows(old, new) ==
    /\ \A s \in old : \E t \in new :
           /\ t.labels = s.labels
           /\ t.count >= s.count
           /\ t.sum >= s.sum
           /\ \A k \in 1..NumBuckets : t.buckets[k] >= s.buckets[k]
    /\ \A t, u \in new : t.labels = u.labels => t = u

\* C16: in every step each family keeps every label it had, with one
\* aggregate per label, and no counter value, histogram count, sum or bucket
\* of a label gets smaller.
C16_FamiliesOnlyGrow ==
    [][/\ CounterGrows(total_requests, total_requests')
       /\ CounterGrows(request_with_error, request_with_error')
       /\ HistogramGrows(latency_error, latency_error')
       /\ HistogramGrows(latency_success, latency_success')]_vars

\* a label created by one request and mutated in place by a second one
C16_Witness ==
    /\ \E s \in total_requests : s.value = 2
    /\ \E h \in latency_error \cup latency_success : h.count = 2

(***************************************************************************)
(* Counter and histograms of one label                                     *)
(***************************************************************************)
\* no request is past the inc of line 36 and before the observe of lines 38-45
NoneBetween == \A i \in ReqIds : req[i].pc \notin {"counted", "latency_miss"}

\* C17: for every label the observations of latency_success and latency_error
\* together are one per request past the observe, all of them in one of the
\* two families; and with no request between its inc and its observe,
\* total_requests of the label equals that number of observations.
C17_OneObservationPerRequest ==
    \A l \in SeenLabels :
        /\ HistCount(latency_success, l) + HistCount(latency_error, l)
               = NumReq(Observed, l)
        /\ HistCount(latency_success, l) = 0 \/ HistCount(latency_error, l) = 0
        /\ NoneBetween =>
               CounterValue(total_requests, l)
                   = HistCount(latency_success, l) + HistCount(latency_error, l)

\* two requests of one label observed in latency_success, none in between
C17_Witness ==
    /\ NoneBetween
    /\ \E l \in SeenLabels :
           /\ CounterValue(total_requests, l) = 2
           /\ HistCount(latency_success, l) = 2
    /\ \E l \in SeenLabels : HistCount(latency_error, l) = 0

(***************************************************************************)
(* Which requests write the families                                       *)
(***************************************************************************)
\* C18: a step of a scrape, accepted or answered, leaves the four families as
\* they are, and a step that changes a family is a step of a request of the
\* application listener.
C18_ScrapeLeavesFamilies ==
    [][/\ (\E j \in ScrIds : scr'[j] # scr[j]) => famVars' = famVars
       /\ famVars' # famVars => \E i \in ReqIds : req'[i] # req[i]]_vars

\* a scrape answered after both aggregates of a request were written, and
\* nothing written since
C18_Witness ==
    /\ lastOut.epoch >= 2
    /\ Mutations = lastOut.epoch
    /\ \E s \in total_requests : s.value >= 1

\* C19: the family registered as requests_with_error holds no series, so no
\* label and no count, whatever the statuses of the responses so far.
C19_RequestWithErrorNeverWritten ==
    /\ request_with_error = {}
    /\ Len(registered) = 4 => \E k \in 1..4 : registered[k] = "requests_with_error"

\* a response with status 400 has been counted and observed as an error
C19_Witness ==
    /\ \E i \in ReqIds : req[i].pc = "done" /\ req[i].status >= 400
    /\ \E h \in latency_error : h.labels.status_code >= 400 /\ h.count >= 1
    /\ \E k \in 1..Len(registered) : registered[k] = "requests_with_error"
====
